---- MODULE Spec2Model ----
(***************************************************************************)
(* ExplorerForceGraph (forceGraph.tsx): the graph derived from the         *)
(* document tree, the hover spotlight machine, the staged repulsion        *)
(* timers and the framed-once guard of the settle callback.                *)
(*                                                                         *)
(* Strings are sequences of tokens (<<"S", ":", "1">> is "S:1",            *)
(* <<"grouped_", "S">> is "grouped_S"), so that split, replace, startsWith *)
(* and toLowerCase are computed and not assumed.  null and undefined are   *)
(* the empty sequence where the code only tests truthiness, and an         *)
(* optional object is a sequence of length 0 or 1.                         *)
(***************************************************************************)
EXTENDS Integers, Sequences, FiniteSets, TLC

VARIABLES
  dataStore,           \* useDataStore().dataStore: the documents present, by store key
  dataTree,            \* useDataStore().dataTree: the root documents
  docLinks,            \* per document object, its ordered outgoing links
  ignoreTypes,         \* useState(['same'])
  filterTypeA,         \* useState('')
  filterTypeB,         \* useState('')
  showAll,             \* useState(true)
  graphData,           \* useState<GraphPayload | null>(null)
  maxNodeSize,         \* useState(1)
  creOptions,          \* the values of the first dropdown
  combinedOptions,     \* the values of the second dropdown
  buildError,          \* the build effect threw (RangeError of the recursion)
  mounted,             \* the component is mounted
  fgMounted,           \* fgRef.current is set: ForceGraph3D is rendered
  focusedNodeId,       \* useState<string | null>(null)
  focusedNodeIds,      \* useState<Set<string>>(new Set())
  focusedLinkIds,      \* useState<Set<string>>(new Set())
  hoverDelayTimerRef,  \* useRef<number | null>(null); 0 is null
  didFinalCenterRef,   \* useRef(false)
  timers,              \* the pending window.setTimeout timers
  stagedTimers,        \* the timer ids held by the cleanup of the graphData effect
  chargeStrength,      \* d3Force('charge').strength of the simulation
  engineRunning,       \* the simulation is running (it reports a settle when it stops)
  lastEntered,         \* history: the node of the most recent hover-enter
  sinceEnter,          \* history: ms since the most recent hover-enter, up to HoverDelayMs
  settles,             \* history: settle events since the graph was last built, capped
  frames,              \* history: framing runs since the graph was last built, capped
  preempted,           \* history: the last hover-enter cancelled the pending timer of another node
  stagedCancelled,     \* history: a build has cancelled a pending staged timer
  lastHoverEvent,      \* history: the last pointer event: "none", "enter" or "leave" (exit or click)
  camera,              \* history: the camera command requested since the graph was last built
  data,                \* a graph payload with simulated positions, the argument of the pose functions
  largest,             \* the result of getMainConnectedComponentIds(data): none, or one set
  values,              \* the argument of getTrimmedExtent
  extent,              \* the result of getTrimmedExtent(values): none, or one pair
  viewport,            \* the renderer's canvas and camera and the spans of a frame
  orbit                \* the camera distance and the zoom bounds set for viewport: none, or one record

inputVars == <<dataStore, dataTree, docLinks>>
paramVars == <<ignoreTypes, filterTypeA, filterTypeB, showAll>>
focusVars == <<focusedNodeId, focusedNodeIds, focusedLinkIds>>
vars == <<dataStore, dataTree, docLinks, ignoreTypes, filterTypeA, filterTypeB, showAll,
          graphData, maxNodeSize, creOptions, combinedOptions, buildError, mounted,
          fgMounted, focusedNodeId, focusedNodeIds, focusedLinkIds, hoverDelayTimerRef,
          didFinalCenterRef, timers, stagedTimers, chargeStrength, engineRunning,
          lastEntered, sinceEnter, settles, frames, preempted, stagedCancelled,
          lastHoverEvent, camera, data, largest, values, extent, viewport, orbit>>

\* the arguments and results of the functions applied on their own
sideVars == <<data, largest, values, extent, viewport, orbit>>

componentVars ==
  <<dataStore, dataTree, docLinks, ignoreTypes, filterTypeA, filterTypeB, showAll,
    graphData, maxNodeSize, creOptions, combinedOptions, buildError, mounted,
    fgMounted, focusedNodeId, focusedNodeIds, focusedLinkIds, hoverDelayTimerRef,
    didFinalCenterRef, timers, stagedTimers, chargeStrength, engineRunning,
    lastEntered, sinceEnter, settles, frames, preempted, stagedCancelled,
    lastHoverEvent>>

-----------------------------------------------------------------------------
(* Bounds of the model *)

\* total number of links of the document trees the data source delivers
MaxLinks == 2

\* the cap of the history counters settles and frames
MaxCount == 2

\* the most nodes of a positioned graph handed to the pose functions
MaxNodes == 9

\* the most links of a graph handed to getMainConnectedComponentIds
MaxEdges == 3

\* the most values appended to a list handed to getTrimmedExtent
MaxValues == 13

-----------------------------------------------------------------------------
(* Program constants *)

HoverDelayMs == 1000
ExpandDelayMs == 200
SettleDelayMs == 620
StartCharge == -55
ExpandCharge == -75
SettleCharge == -95

\* line 60: lists shorter than this are not trimmed
TrimFrom == 12

\* the step of the clock between deadlines
TimeStep == HoverDelayMs \div 2

-----------------------------------------------------------------------------
(* The documents the data source can deliver *)

Objs == 1..4

Doc(o) ==
  CASE o = 1 -> [id |-> <<"c1">>, doctype |-> <<"CRE">>, displayName |-> <<"one">>]
    [] o = 2 -> [id |-> <<"c2">>, doctype |-> <<"CRE">>, displayName |-> <<"two">>]
    [] o = 3 -> [id |-> <<"S", ":", "1">>, doctype |-> <<"Standard">>, displayName |-> <<"S one">>]
    [] o = 4 -> [id |-> <<"S", ":", "2">>, doctype |-> <<"Standard">>, displayName |-> <<"S two">>]

LTypes == {<<"Contains">>, <<"Related">>}

\* the recursion depth at which the engine throws RangeError: above the depth
\* of every acyclic tree over Objs
MaxCallDepth == Cardinality(Objs) + 2

-----------------------------------------------------------------------------
(* String functions *)

LowerTok(t) ==
  CASE t = "CRE" -> "cre"
    [] t = "Standard" -> "standard"
    [] t = "Contains" -> "contains"
    [] t = "Related" -> "related"
    [] t = "Unknown" -> "unknown"
    [] OTHER -> t

toLowerCase(s) == [i \in 1..Len(s) |-> LowerTok(s[i])]

startsWith(s, tok) == Len(s) > 0 /\ s[1] = tok

\* String.prototype.replace with a string pattern: the first occurrence only
replaceFirst(s, tok) ==
  IF \E i \in 1..Len(s) : s[i] = tok
  THEN LET i == CHOOSE j \in 1..Len(s) : s[j] = tok /\ \A k \in 1..(j-1) : s[k] # tok
       IN  SubSeq(s, 1, i-1) \o SubSeq(s, i+1, Len(s))
  ELSE s

\* split(':')[0]
getBaseName(standardId) ==
  IF \E i \in 1..Len(standardId) : standardId[i] = ":"
  THEN LET i == CHOOSE j \in 1..Len(standardId) :
                   standardId[j] = ":" /\ \A k \in 1..(j-1) : standardId[k] # ":"
       IN  SubSeq(standardId, 1, i-1)
  ELSE standardId

getGroupedStandardId(baseName) == <<"grouped_">> \o baseName

getBaseNameFromGrouped(groupedId) == replaceFirst(groupedId, "grouped_")

\* link endpoints are held by identity in this model
getNodeId(node) == node

createLinkId(source, target, ltype) ==
  getNodeId(source) \o <<"::">> \o getNodeId(target) \o <<"::">> \o toLowerCase(ltype)

\* the stable key of a document: its identity
getStoreKey(o) == Doc(o).id

includes(seq, x) == \E i \in 1..Len(seq) : seq[i] = x

Range(seq) == {seq[i] : i \in 1..Len(seq)}

-----------------------------------------------------------------------------
(* The build effect, lines 382-602 *)

isStandard(doctype) == toLowerCase(doctype) = <<"standard">>

\* collectStandards: unguarded recursive descent; ok is FALSE when the
\* recursion exceeds the call stack
RECURSIVE collectStandards(_, _, _, _), collectLinks(_, _, _, _, _)
collectStandards(lnk, node, standards, depth) ==
  IF depth > MaxCallDepth
  THEN [ok |-> FALSE, list |-> standards]
  ELSE collectLinks(lnk, node, 1,
                    IF isStandard(Doc(node).doctype) THEN Append(standards, node) ELSE standards,
                    depth)
collectLinks(lnk, node, i, acc, depth) ==
  IF i > Len(lnk[node])
  THEN [ok |-> TRUE, list |-> acc]
  ELSE LET r == IF lnk[node][i].document # 0
                THEN collectStandards(lnk, lnk[node][i].document, acc, depth + 1)
                ELSE [ok |-> TRUE, list |-> acc]
       IN  IF r.ok THEN collectLinks(lnk, node, i + 1, r.list, depth) ELSE r

\* allStandardNodes: the concatenation over the roots
RECURSIVE allStandardNodes(_, _, _, _)
allStandardNodes(lnk, tree, i, acc) ==
  IF i > Len(tree)
  THEN [ok |-> TRUE, list |-> acc]
  ELSE LET r == collectStandards(lnk, tree[i], <<>>, 1)
       IN  IF r.ok THEN allStandardNodes(lnk, tree, i + 1, acc \o r.list) ELSE r

\* groupedStandards: base name -> the collected documents of that base name, in order
groupedStandards(all) ==
  [b \in {getBaseName(Doc(all[i]).id) : i \in 1..Len(all)} |->
     SelectSeq(all, LAMBDA o : getBaseName(Doc(o).id) = b)]

\* originalToGroupedMap: document identity -> group identity
originalToGroupedMap(grouped) ==
  [d \in UNION {{Doc(o).id : o \in Range(grouped[b])} : b \in DOMAIN grouped} |->
     getGroupedStandardId(getBaseName(d))]

isAll(val) == val # <<>> /\ startsWith(val, "all_")
isGroupedStandard(val) == val # <<>> /\ startsWith(val, "grouped_")
getTypeFromAll(val) == replaceFirst(val, "all_")

matchesFilter(node, filterVal) ==
  IF filterVal = <<>> THEN TRUE
  ELSE IF isAll(filterVal)
       THEN toLowerCase(node.doctype) = toLowerCase(getTypeFromAll(filterVal))
  ELSE IF isGroupedStandard(filterVal)
       THEN /\ toLowerCase(node.doctype) = <<"standard">>
            /\ getBaseName(node.id) = getBaseNameFromGrouped(filterVal)
  ELSE node.id = filterVal

\* mutant: a document keeps its own key in an edge
resolveKeyStoreKey(o2g, o) == getStoreKey(o)

\* the endpoint identity of a document in an edge
resolveKey(o2g, o) ==
  IF isStandard(Doc(o).doctype)
  THEN IF Doc(o).id \in DOMAIN o2g THEN o2g[Doc(o).id] ELSE getStoreKey(o)
  ELSE getStoreKey(o)

\* populateGraphData: st = [traversalSeen, linkSeen, links]
RECURSIVE populateGraphData(_, _, _, _, _), populateLinks(_, _, _, _, _, _)
populateGraphData(lnk, ignore, o2g, node, st) ==
  IF getStoreKey(node) \in st.traversalSeen
  THEN st
  ELSE populateLinks(lnk, ignore, o2g, node, 1,
                     [st EXCEPT !.traversalSeen = @ \cup {getStoreKey(node)}])
\* mutant: the walk descends into a link's target only when its edge is new
RECURSIVE populateLinksSkipSeen(_, _, _, _, _, _)
populateLinksSkipSeen(lnk, ignore, o2g, node, i, st) ==
  IF i > Len(lnk[node])
  THEN st
  ELSE LET x == lnk[node][i] IN
       IF x.document # 0 /\ ~includes(ignore, toLowerCase(x.ltype))
       THEN LET sourceKey == resolveKey(o2g, node)
                targetKey == resolveKey(o2g, x.document)
                linkId == createLinkId(sourceKey, targetKey, x.ltype)
            IN  IF linkId \notin st.linkSeen
                THEN populateLinksSkipSeen(lnk, ignore, o2g, node, i + 1,
                       populateGraphData(lnk, ignore, o2g, x.document,
                         [st EXCEPT !.linkSeen = @ \cup {linkId},
                                    !.links = Append(@, [source |-> sourceKey,
                                                         target |-> targetKey,
                                                         count |-> IF x.ltype = <<"Contains">> THEN 2 ELSE 1,
                                                         type |-> x.ltype])]))
                ELSE populateLinksSkipSeen(lnk, ignore, o2g, node, i + 1, st)
       ELSE populateLinksSkipSeen(lnk, ignore, o2g, node, i + 1, st)

populateLinks(lnk, ignore, o2g, node, i, st) ==
  IF i > Len(lnk[node])
  THEN st
  ELSE LET x == lnk[node][i] IN
       IF x.document # 0 /\ ~includes(ignore, toLowerCase(x.ltype))
       THEN LET sourceKey == resolveKey(o2g, node)
                targetKey == resolveKey(o2g, x.document)
                linkId == createLinkId(sourceKey, targetKey, x.ltype)
                st1 == IF linkId \notin st.linkSeen
                       THEN [st EXCEPT !.linkSeen = @ \cup {linkId},
                                       !.links = Append(@, [source |-> sourceKey,
                                                            target |-> targetKey,
                                                            count |-> IF x.ltype = <<"Contains">> THEN 2 ELSE 1,
                                                            type |-> x.ltype])]
                       ELSE st
            IN  populateLinks(lnk, ignore, o2g, node, i + 1,
                              populateGraphData(lnk, ignore, o2g, x.document, st1))
       ELSE populateLinks(lnk, ignore, o2g, node, i + 1, st)

RECURSIVE populateRoots(_, _, _, _, _, _)
populateRoots(lnk, ignore, o2g, tree, i, st) ==
  IF i > Len(tree) THEN st
  ELSE populateRoots(lnk, ignore, o2g, tree, i + 1,
                     populateGraphData(lnk, ignore, o2g, tree[i], st))

\* dataStore[key]: the stored document, or nothing
storeLookup(store, key) ==
  IF \E o \in store : getStoreKey(o) = key
  THEN <<Doc(CHOOSE o \in store : getStoreKey(o) = key)>>
  ELSE <<>>

\* the document the endpoint filter tests for an edge endpoint
filterNode(store, endpoint) ==
  IF startsWith(getNodeId(endpoint), "grouped_")
  THEN <<[id |-> getNodeId(endpoint), doctype |-> <<"standard">>,
          displayName |-> getBaseNameFromGrouped(getNodeId(endpoint))]>>
  ELSE storeLookup(store, getNodeId(endpoint))

keepLink(store, fA, fB, link) ==
  LET sourceNode == filterNode(store, link.source)
      targetNode == filterNode(store, link.target)
  IN  IF sourceNode = <<>> \/ targetNode = <<>> THEN FALSE
      ELSE \/ matchesFilter(sourceNode[1], fA)
           \/ matchesFilter(sourceNode[1], fB)
           \/ matchesFilter(targetNode[1], fA)
           \/ matchesFilter(targetNode[1], fB)

postFilter(store, fA, fB, sAll, links) ==
  IF ~sAll /\ (fA # <<>> \/ fB # <<>>)
  THEN SelectSeq(links, LAMBDA l : keepLink(store, fA, fB, l))
  ELSE links

\* mutant: a further occurrence of an identity does not count
addNodeNoCount(store, grouped, nodes, name) ==
  IF ~\E i \in 1..Len(nodes) : nodes[i].id = name
  THEN IF startsWith(name, "grouped_")
       THEN LET baseName == getBaseNameFromGrouped(name)
                groupedNodes == IF baseName \in DOMAIN grouped THEN grouped[baseName] ELSE <<>>
            IN  Append(nodes, [id |-> name,
                               size |-> IF Len(groupedNodes) # 0 THEN Len(groupedNodes) ELSE 1,
                               name |-> baseName,
                               doctype |-> <<"standard">>,
                               originalNodes |-> groupedNodes])
       ELSE LET storedDoc == storeLookup(store, name)
            IN  Append(nodes, [id |-> name,
                               size |-> 1,
                               name |-> IF storedDoc # <<>> THEN storedDoc[1].displayName ELSE name,
                               doctype |-> IF storedDoc # <<>> THEN storedDoc[1].doctype ELSE <<"Unknown">>,
                               originalNodes |-> <<>>])
  ELSE nodes

\* addNode: nodes is the emitted list (nodesMap holds the same objects by identity)
addNode(store, grouped, nodes, name) ==
  IF ~\E i \in 1..Len(nodes) : nodes[i].id = name
  THEN IF startsWith(name, "grouped_")
       THEN LET baseName == getBaseNameFromGrouped(name)
                groupedNodes == IF baseName \in DOMAIN grouped THEN grouped[baseName] ELSE <<>>
            IN  Append(nodes, [id |-> name,
                               size |-> IF Len(groupedNodes) # 0 THEN Len(groupedNodes) ELSE 1,
                               name |-> baseName,
                               doctype |-> <<"standard">>,
                               originalNodes |-> groupedNodes])
       ELSE LET storedDoc == storeLookup(store, name)
            IN  Append(nodes, [id |-> name,
                               size |-> 1,
                               name |-> IF storedDoc # <<>> THEN storedDoc[1].displayName ELSE name,
                               doctype |-> IF storedDoc # <<>> THEN storedDoc[1].doctype ELSE <<"Unknown">>,
                               originalNodes |-> <<>>])
  ELSE [i \in 1..Len(nodes) |->
          IF nodes[i].id = name THEN [nodes[i] EXCEPT !.size = @ + 1] ELSE nodes[i]]

\* mutant: the node of a link's target is never added
RECURSIVE addNodesSourceOnly(_, _, _, _, _)
addNodesSourceOnly(store, grouped, links, i, nodes) ==
  IF i > Len(links) THEN nodes
  ELSE addNodesSourceOnly(store, grouped, links, i + 1,
                          addNode(store, grouped, nodes, getNodeId(links[i].source)))

RECURSIVE addNodes(_, _, _, _, _)
addNodes(store, grouped, links, i, nodes) ==
  IF i > Len(links) THEN nodes
  ELSE addNodes(store, grouped, links, i + 1,
                addNode(store, grouped,
                        addNode(store, grouped, nodes, getNodeId(links[i].source)),
                        getNodeId(links[i].target)))

reversedLinks(links) ==
  [i \in 1..Len(links) |-> [source |-> links[i].target, target |-> links[i].source,
                            count |-> links[i].count, type |-> links[i].type]]

RECURSIVE peakNodeSize(_, _, _)
peakNodeSize(nodes, i, acc) ==
  IF i > Len(nodes) THEN acc
  ELSE peakNodeSize(nodes, i + 1, IF nodes[i].size > acc THEN nodes[i].size ELSE acc)

\* the whole effect: [threw, graph (none, or one payload), grouped (groupedStandards)]
buildGraph(store, tree, lnk, ignore, fA, fB, sAll) ==
  IF store = {}
  THEN [threw |-> FALSE, graph |-> <<>>, grouped |-> <<>>]
  ELSE LET all == allStandardNodes(lnk, tree, 1, <<>>) IN
       IF ~all.ok
       THEN [threw |-> TRUE, graph |-> <<>>, grouped |-> <<>>]
       ELSE LET grouped == groupedStandards(all.list)
                o2g == originalToGroupedMap(grouped)
                st == populateRoots(lnk, ignore, o2g, tree, 1,
                                    [traversalSeen |-> {}, linkSeen |-> {}, links |-> <<>>])
                links == postFilter(store, fA, fB, sAll, st.links)
                nodes == addNodes(store, grouped, links, 1, <<>>)
            IN  [threw |-> FALSE,
                 graph |-> <<[nodes |-> nodes, links |-> reversedLinks(links)]>>,
                 grouped |-> grouped]

-----------------------------------------------------------------------------
(* The adjacency index, lines 269-302 *)

\* mutant: a link is indexed under its source only
adjacencySourceOnly(graph) ==
  IF graph = <<>>
  THEN [neighborNodes |-> <<>>, incidentLinks |-> <<>>]
  ELSE LET links == graph[1].links
           ends == {getNodeId(links[i].source) : i \in 1..Len(links)}
           at(n) == {i \in 1..Len(links) : getNodeId(links[i].source) = n}
       IN  [neighborNodes |-> [n \in ends |-> {getNodeId(links[i].target) : i \in at(n)}],
            incidentLinks |->
              [n \in ends |-> {createLinkId(getNodeId(links[i].source),
                                            getNodeId(links[i].target),
                                            links[i].type) : i \in at(n)}]]

adjacency(graph) ==
  IF graph = <<>>
  THEN [neighborNodes |-> <<>>, incidentLinks |-> <<>>]
  ELSE LET links == graph[1].links
           ends == {getNodeId(links[i].source) : i \in 1..Len(links)}
                     \cup {getNodeId(links[i].target) : i \in 1..Len(links)}
           at(n) == {i \in 1..Len(links) :
                       getNodeId(links[i].source) = n \/ getNodeId(links[i].target) = n}
       IN  [neighborNodes |->
              [n \in ends |-> {IF getNodeId(links[i].source) = n
                               THEN getNodeId(links[i].target)
                               ELSE getNodeId(links[i].source) : i \in at(n)}
                              \cup {n : i \in {j \in at(n) : getNodeId(links[j].source)
                                                            = getNodeId(links[j].target)}}],
            incidentLinks |->
              [n \in ends |-> {createLinkId(getNodeId(links[i].source),
                                            getNodeId(links[i].target),
                                            links[i].type) : i \in at(n)}]]

-----------------------------------------------------------------------------
(* Timers: window.setTimeout and window.clearTimeout *)

NoAdjacency == [neighborNodes |-> <<>>, incidentLinks |-> <<>>]

\* no camera command has been requested
NoCamera == [request |-> "none", frameNodes |-> {}]

NoViewport == [width |-> 0, height |-> 0, fov |-> 0, rawSpanX |-> 1, rawSpanY |-> 1]

\* the id window.setTimeout returns: one no pending timer and no holder has
freshId(used) ==
  CHOOSE n \in 1..(Cardinality(used) + 1) : n \notin used /\ \A m \in 1..(n - 1) : m \in used

clearTimeout(ts, id) == {t \in ts : t.id # id}

hoverTimer(id, hoveredId, adj) ==
  [id |-> id, kind |-> "hover", remaining |-> HoverDelayMs, hoveredId |-> hoveredId,
   adjacency |-> adj, stale |-> FALSE]

stagedTimer(id, kind, delay) ==
  [id |-> id, kind |-> kind, remaining |-> delay, hoveredId |-> <<>>,
   adjacency |-> NoAdjacency, stale |-> FALSE]

\* history: the hover timers that outlive a build were armed against the graph before it
markStale(ts) == {IF t.kind = "hover" THEN [t EXCEPT !.stale = TRUE] ELSE t : t \in ts}

\* mutant: the cleanup clears expandTimer only
stagedCleanupExpandOnly(ts, staged) == {t \in ts : staged = <<>> \/ t.id # staged[1]}

\* the cleanup of the graphData effect, lines 648-651
stagedCleanup(ts, staged) == {t \in ts : t.id \notin Range(staged)}

-----------------------------------------------------------------------------
(* Render and effects after a change of the inputs or the parameters *)

\* the render gate of ForceGraph3D, lines 733-734
gate(graph, fA, fB, sAll) == (sAll \/ fA # <<>> \/ fB # <<>>) /\ graph # <<>>

\* the graphData effect, lines 616-652, run for a new graphData
graphEffect(graph, fg) ==
  LET cleaned == markStale(stagedCleanup(timers, stagedTimers)) IN
  /\ stagedCancelled' = (stagedCancelled \/ \E t \in timers : t.kind # "hover" /\ t \notin cleaned)
  /\ IF graph = <<>> \/ ~fg
     THEN /\ timers' = cleaned
          /\ stagedTimers' = <<>>
          /\ UNCHANGED <<didFinalCenterRef, chargeStrength>>
     ELSE LET used == {t.id : t \in cleaned} \cup ({hoverDelayTimerRef} \ {0})
              expandTimer == freshId(used)
              settleTimer == freshId(used \cup {expandTimer})
          IN  /\ didFinalCenterRef' = FALSE
              /\ chargeStrength' = StartCharge
              /\ timers' = cleaned \cup {stagedTimer(expandTimer, "expand", ExpandDelayMs),
                                         stagedTimer(settleTimer, "settle", SettleDelayMs)}
              /\ stagedTimers' = <<expandTimer, settleTimer>>

\* the values of the second dropdown, lines 573-589
combinedValues(store, grouped) ==
  {<<>>, <<"all_", "standard">>, <<"all_", "cre">>}
    \cup {getGroupedStandardId(b) : b \in DOMAIN grouped}
    \cup {Doc(o).id : o \in {d \in store : Doc(d).doctype = <<"CRE">>}}

\* the values of the first dropdown, lines 366-380
creValues(store) ==
  {<<>>, <<"all_", "cre">>} \cup {Doc(o).id : o \in {d \in store : Doc(d).doctype = <<"CRE">>}}

\* an error thrown by an effect unmounts the component: every cleanup runs
unmountCleanup ==
  /\ mounted' = FALSE
  /\ fgMounted' = FALSE
  /\ timers' = clearTimeout(stagedCleanup(timers, stagedTimers), hoverDelayTimerRef)
  /\ stagedTimers' = <<>>
  /\ engineRunning' = FALSE
  /\ UNCHANGED <<hoverDelayTimerRef, didFinalCenterRef, chargeStrength, stagedCancelled>>

\* the build effect and what follows it, for the new inputs and parameters
rebuild(store, tree, lnk, ignore, fA, fB, sAll) ==
  \E b \in {buildGraph(store, tree, lnk, ignore, fA, fB, sAll)} :
    IF b.threw
    THEN /\ buildError' = TRUE
         /\ unmountCleanup
         /\ UNCHANGED <<graphData, maxNodeSize, combinedOptions, settles, frames, camera>>
    ELSE \E fg \in {gate(b.graph, fA, fB, sAll)} :
         /\ buildError' = FALSE
         /\ mounted' = TRUE
         /\ graphData' = b.graph
         /\ IF b.graph = <<>>
            THEN UNCHANGED <<maxNodeSize, combinedOptions>>
            ELSE /\ maxNodeSize' = peakNodeSize(b.graph[1].nodes, 1, 1)
                 /\ combinedOptions' = combinedValues(store, b.grouped)
         /\ fgMounted' = fg
         /\ engineRunning' = fg
         /\ graphEffect(b.graph, fg)
         /\ settles' = 0
         /\ frames' = 0
         /\ camera' = NoCamera
         /\ UNCHANGED hoverDelayTimerRef

-----------------------------------------------------------------------------
(* Initial state: the component mounted over an empty store *)

componentInit ==
  /\ dataStore = {}
  /\ dataTree = <<>>
  /\ docLinks = [o \in Objs |-> <<>>]
  /\ ignoreTypes = <<<<"same">>>>
  /\ filterTypeA = <<>>
  /\ filterTypeB = <<>>
  /\ showAll = TRUE
  /\ graphData = <<>>
  /\ maxNodeSize = 1
  /\ creOptions = creValues({})
  /\ combinedOptions = {}
  /\ buildError = FALSE
  /\ mounted = TRUE
  /\ fgMounted = FALSE
  /\ focusedNodeId = <<>>
  /\ focusedNodeIds = {}
  /\ focusedLinkIds = {}
  /\ hoverDelayTimerRef = 0
  /\ didFinalCenterRef = FALSE
  /\ timers = {}
  /\ stagedTimers = <<>>
  /\ chargeStrength = 0
  /\ engineRunning = FALSE
  /\ lastEntered = <<>>
  /\ sinceEnter = HoverDelayMs
  /\ settles = 0
  /\ frames = 0
  /\ preempted = FALSE
  /\ stagedCancelled = FALSE
  /\ lastHoverEvent = "none"
  /\ camera = NoCamera

Init ==
  /\ componentInit
  /\ data = [nodes |-> <<>>, links |-> <<>>]
  /\ largest = <<>>
  /\ values = <<>>
  /\ extent = <<>>
  /\ viewport = NoViewport
  /\ orbit = <<>>

-----------------------------------------------------------------------------
(* The data source delivers its documents *)

linkCount(lnk) == Len(lnk[1]) + Len(lnk[2]) + Len(lnk[3]) + Len(lnk[4])

Link == [ltype : LTypes, document : Objs]

\* every tree of at most n links, cyclic ones included
RECURSIVE TreesUpTo(_)
TreesUpTo(n) ==
  IF n = 0
  THEN {[o \in Objs |-> <<>>]}
  ELSE LET smaller == TreesUpTo(n - 1)
       IN  smaller \cup {[lnk EXCEPT ![o] = Append(@, l)] : lnk \in smaller, o \in Objs, l \in Link}

Trees == TreesUpTo(MaxLinks)

RootLists == {<<1>>, <<1, 4>>}

\* the documents a tree holds: those its roots reach
RECURSIVE reach(_, _)
reach(lnk, seen) ==
  LET more == seen \cup UNION {{lnk[o][i].document : i \in 1..Len(lnk[o])} : o \in seen} IN
  IF more = seen THEN seen ELSE reach(lnk, more)

\* a link list hangs off a document of the tree
isTree(tree, lnk) == \A o \in Objs : lnk[o] # <<>> => o \in reach(lnk, Range(tree))

\* the store holds the documents of store, the tree its roots and links
LoadStore(store, tree, lnk) ==
  /\ mounted
  /\ dataStore = {}
  /\ isTree(tree, lnk)
  /\ dataStore' = store
  /\ dataTree' = tree
  /\ docLinks' = lnk
  /\ creOptions' = creValues(store)
  /\ rebuild(store, tree, lnk, ignoreTypes, filterTypeA, filterTypeB, showAll)
  /\ UNCHANGED <<paramVars, focusVars, lastEntered, sinceEnter, preempted, sideVars,
                 lastHoverEvent>>

\* the store holds every document
LoadData(tree, lnk) == LoadStore(Objs, tree, lnk)

\* c1 -Contains-> S:1, c1 -Related-> c2
SampleLinks ==
  [o \in Objs |->
     IF o = 1
     THEN <<[ltype |-> <<"Contains">>, document |-> 3],
            [ltype |-> <<"Related">>, document |-> 2]>>
     ELSE <<>>]

\* c1 -Contains-> S:1, c1 -Contains-> S:2, S:2 -Related-> c2, S:2 -Contains-> S:1
DeepLinks ==
  [o \in Objs |->
     IF o = 1
     THEN <<[ltype |-> <<"Contains">>, document |-> 3],
            [ltype |-> <<"Contains">>, document |-> 4]>>
     ELSE IF o = 4
     THEN <<[ltype |-> <<"Related">>, document |-> 2],
            [ltype |-> <<"Contains">>, document |-> 3]>>
     ELSE <<>>]

\* trees beyond MaxLinks, and a store loaded in part: c2 is not in it yet
ExtraTrees == {SampleLinks, DeepLinks}
Stores == {Objs, Objs \ {2}}

-----------------------------------------------------------------------------
(* The controls *)

\* mutant: splice removes nothing
removeNothing(seq, x) == seq

\* indexOf and splice(index, 1)
removeFirst(seq, x) ==
  LET i == CHOOSE j \in 1..Len(seq) : seq[j] = x /\ \A k \in 1..(j - 1) : seq[k] # x
  IN  SubSeq(seq, 1, i - 1) \o SubSeq(seq, i + 1, Len(seq))

\* lines 605-613: the list toggleLinks hands to setIgnoreTypes
ignoreTypesClone(ignore, name) ==
  IF includes(ignore, name) THEN removeFirst(ignore, name) ELSE Append(ignore, name)

toggleLinks(name) ==
  /\ mounted
  /\ ignoreTypes' = ignoreTypesClone(ignoreTypes, name)
  /\ rebuild(dataStore, dataTree, docLinks, ignoreTypes', filterTypeA, filterTypeB, showAll)
  /\ UNCHANGED <<inputVars, filterTypeA, filterTypeB, showAll, creOptions, focusVars,
                 lastEntered, sinceEnter, preempted, sideVars,
                 lastHoverEvent>>

setFilterTypeA(value) ==
  /\ mounted
  /\ value \in creOptions
  /\ value # filterTypeA
  /\ filterTypeA' = value
  /\ rebuild(dataStore, dataTree, docLinks, ignoreTypes, value, filterTypeB, showAll)
  /\ UNCHANGED <<inputVars, ignoreTypes, filterTypeB, showAll, creOptions, focusVars,
                 lastEntered, sinceEnter, preempted, sideVars,
                 lastHoverEvent>>

setFilterTypeB(value) ==
  /\ mounted
  /\ value \in combinedOptions
  /\ value # filterTypeB
  /\ filterTypeB' = value
  /\ rebuild(dataStore, dataTree, docLinks, ignoreTypes, filterTypeA, value, showAll)
  /\ UNCHANGED <<inputVars, ignoreTypes, filterTypeA, showAll, creOptions, focusVars,
                 lastEntered, sinceEnter, preempted, sideVars,
                 lastHoverEvent>>

setShowAll ==
  /\ mounted
  /\ showAll' = ~showAll
  /\ rebuild(dataStore, dataTree, docLinks, ignoreTypes, filterTypeA, filterTypeB, ~showAll)
  /\ UNCHANGED <<inputVars, ignoreTypes, filterTypeA, filterTypeB, creOptions, focusVars,
                 lastEntered, sinceEnter, preempted, sideVars,
                 lastHoverEvent>>

-----------------------------------------------------------------------------
(* The graph derivation under every tree *)

BuildToggleNames == {<<"related">>}
BuildFilterA == {<<>>, <<"c2">>}
BuildFilterB == {<<>>, <<"grouped_", "S">>, <<"all_", "standard">>}

NextBuild ==
  \/ dataStore = {} /\ \E tree \in RootLists, lnk \in Trees : LoadData(tree, lnk)
  \/ dataStore = {} /\ \E store \in Stores, lnk \in ExtraTrees : LoadStore(store, <<1>>, lnk)
  \/ \E name \in BuildToggleNames : toggleLinks(name)
  \/ \E value \in BuildFilterA : setFilterTypeA(value)
  \/ \E value \in BuildFilterB : setFilterTypeB(value)
  \/ setShowAll

SpecBuild == Init /\ [][NextBuild]_vars

-----------------------------------------------------------------------------
(* The hover spotlight, lines 304-341 *)

\* mutant: the reference is dropped and the timer is left pending
clearDelayedFocusKeepTimer ==
  /\ mounted /\ fgMounted
  /\ timers' = timers
  /\ hoverDelayTimerRef' = 0
  /\ focusedNodeId' = <<>>
  /\ focusedNodeIds' = {}
  /\ focusedLinkIds' = {}
  /\ UNCHANGED <<inputVars, paramVars, graphData, maxNodeSize, creOptions, combinedOptions,
                 buildError, mounted, fgMounted, didFinalCenterRef, stagedTimers,
                 chargeStrength, engineRunning, lastEntered, sinceEnter, settles, frames,
                 preempted, stagedCancelled, sideVars, camera>>

\* clearDelayedFocus, also the onBackgroundClick handler
clearDelayedFocus ==
  /\ mounted /\ fgMounted
  /\ timers' = IF hoverDelayTimerRef # 0 THEN clearTimeout(timers, hoverDelayTimerRef) ELSE timers
  /\ hoverDelayTimerRef' = 0
  /\ focusedNodeId' = <<>>
  /\ focusedNodeIds' = {}
  /\ focusedLinkIds' = {}
  /\ UNCHANGED <<inputVars, paramVars, graphData, maxNodeSize, creOptions, combinedOptions,
                 buildError, mounted, fgMounted, didFinalCenterRef, stagedTimers,
                 chargeStrength, engineRunning, lastEntered, sinceEnter, settles, frames,
                 preempted, stagedCancelled, sideVars,
                 camera>>

\* handleNodeHover(null): the pointer leaves every node (lines 315-323)
hoverExit ==
  /\ hoverDelayTimerRef' = 0
  /\ clearDelayedFocus
  /\ lastHoverEvent' = "leave"

\* onBackgroundClick={clearDelayedFocus}, line 753
onBackgroundClick ==
  /\ clearDelayedFocus
  /\ lastHoverEvent' = "leave"

\* mutant: the pending timer is not cleared before the next one is armed
handleNodeHoverNoClear(nodeId) ==
  /\ mounted /\ fgMounted
  /\ \E i \in 1..Len(graphData[1].nodes) : graphData[1].nodes[i].id = nodeId
  /\ LET id == freshId({t.id : t \in timers} \cup Range(stagedTimers))
     IN  /\ timers' = timers \cup {hoverTimer(id, nodeId, adjacency(graphData))}
         /\ hoverDelayTimerRef' = id
  /\ focusedNodeId' = <<>>
  /\ focusedNodeIds' = {}
  /\ focusedLinkIds' = {}
  /\ lastEntered' = nodeId
  /\ sinceEnter' = 0
  /\ preempted' = \E t \in timers : t.id = hoverDelayTimerRef /\ t.hoveredId # nodeId
  /\ UNCHANGED <<inputVars, paramVars, graphData, maxNodeSize, creOptions, combinedOptions,
                 buildError, mounted, fgMounted, didFinalCenterRef, stagedTimers,
                 chargeStrength, engineRunning, settles, frames, stagedCancelled, sideVars,
                 camera>>
  /\ lastHoverEvent' = "enter"

\* handleNodeHover(node): the pointer enters a node of the rendered graph
handleNodeHover(nodeId) ==
  /\ mounted /\ fgMounted
  /\ \E i \in 1..Len(graphData[1].nodes) : graphData[1].nodes[i].id = nodeId
  /\ LET cleared == IF hoverDelayTimerRef # 0
                    THEN clearTimeout(timers, hoverDelayTimerRef)
                    ELSE timers
         id == freshId({t.id : t \in cleared} \cup Range(stagedTimers))
     IN  /\ timers' = cleared \cup {hoverTimer(id, nodeId, adjacency(graphData))}
         /\ hoverDelayTimerRef' = id
  /\ focusedNodeId' = <<>>
  /\ focusedNodeIds' = {}
  /\ focusedLinkIds' = {}
  /\ lastEntered' = nodeId
  /\ sinceEnter' = 0
  /\ preempted' = \E t \in timers : t.id = hoverDelayTimerRef /\ t.hoveredId # nodeId
  /\ UNCHANGED <<inputVars, paramVars, graphData, maxNodeSize, creOptions, combinedOptions,
                 buildError, mounted, fgMounted, didFinalCenterRef, stagedTimers,
                 chargeStrength, engineRunning, settles, frames, stagedCancelled, sideVars,
                 camera>>
  /\ lastHoverEvent' = "enter"

\* mutant: the hovered node is not added to its neighbors
hoverFireNeighborsOnly(t) ==
  /\ t \in timers /\ t.kind = "hover" /\ t.remaining = 0
  /\ timers' = timers \ {t}
  /\ focusedNodeId' = t.hoveredId
  /\ focusedNodeIds' =
       (IF t.hoveredId \in DOMAIN t.adjacency.neighborNodes
        THEN t.adjacency.neighborNodes[t.hoveredId] ELSE {})
  /\ focusedLinkIds' =
       (IF t.hoveredId \in DOMAIN t.adjacency.incidentLinks
        THEN t.adjacency.incidentLinks[t.hoveredId] ELSE {})
  /\ hoverDelayTimerRef' = 0
  /\ UNCHANGED <<inputVars, paramVars, graphData, maxNodeSize, creOptions, combinedOptions,
                 buildError, mounted, fgMounted, didFinalCenterRef, stagedTimers,
                 chargeStrength, engineRunning, lastEntered, sinceEnter, settles, frames,
                 preempted, stagedCancelled, sideVars, camera,
                 lastHoverEvent>>

\* the timer callback of handleNodeHover, lines 330-340
hoverFire(t) ==
  /\ t \in timers /\ t.kind = "hover" /\ t.remaining = 0
  /\ timers' = timers \ {t}
  /\ focusedNodeId' = t.hoveredId
  /\ focusedNodeIds' = {t.hoveredId} \cup
       (IF t.hoveredId \in DOMAIN t.adjacency.neighborNodes
        THEN t.adjacency.neighborNodes[t.hoveredId] ELSE {})
  /\ focusedLinkIds' =
       (IF t.hoveredId \in DOMAIN t.adjacency.incidentLinks
        THEN t.adjacency.incidentLinks[t.hoveredId] ELSE {})
  /\ hoverDelayTimerRef' = 0
  /\ UNCHANGED <<inputVars, paramVars, graphData, maxNodeSize, creOptions, combinedOptions,
                 buildError, mounted, fgMounted, didFinalCenterRef, stagedTimers,
                 chargeStrength, engineRunning, lastEntered, sinceEnter, settles, frames,
                 preempted, stagedCancelled, sideVars, camera,
                 lastHoverEvent>>

\* isFocusedLink, lines 351-354, for a link and the focused link identities
isFocusedLink(link, linkIds) == createLinkId(link.source, link.target, link.type) \in linkIds

-----------------------------------------------------------------------------
(* The staged repulsion timers, lines 636-646 *)

stagedFire(t, strength) ==
  /\ t \in timers /\ t.remaining = 0
  /\ timers' = timers \ {t}
  /\ IF fgMounted
     THEN chargeStrength' = strength /\ engineRunning' = TRUE
     ELSE UNCHANGED <<chargeStrength, engineRunning>>
  /\ UNCHANGED <<inputVars, paramVars, graphData, maxNodeSize, creOptions, combinedOptions,
                 buildError, mounted, fgMounted, focusVars, hoverDelayTimerRef,
                 didFinalCenterRef, stagedTimers, lastEntered, sinceEnter, settles, frames,
                 preempted, stagedCancelled, sideVars, camera,
                 lastHoverEvent>>

expandFire(t) == t.kind = "expand" /\ stagedFire(t, ExpandCharge)

settleFire(t) == t.kind = "settle" /\ stagedFire(t, SettleCharge)

-----------------------------------------------------------------------------
(* The camera distance, lines 158-171 and 763-786 *)
(* Lengths are held in hundredths of a unit and tangents in ten-thousandths; *)
(* a quotient is rounded down to the next of them.                           *)

max2(a, b) == IF a >= b THEN a ELSE b
min2(a, b) == IF a <= b THEN a ELSE b

\* value || fallback on a number
orElse(value, fallback) == IF value = 0 THEN fallback ELSE value

\* Math.tan(fov * Math.PI / 180 / 2), in ten-thousandths, of the angles in use
halfFovTanOf(fov) ==
  CASE fov = 10 -> 875
    [] fov = 40 -> 3640
    [] fov = 90 -> 10000
    [] fov = 120 -> 17321

\* lines 158-171; spans in units, the result in hundredths
getCameraFitDistance(view, spanX, spanY) ==
  LET width == orElse(view.width, 1920)
      height == orElse(view.height, 1080)
      aspect == max2((width * 10000) \div max2(height, 1), 1)
      halfFovTan == halfFovTanOf(orElse(view.fov, 40))
      distanceForHeight == (max2(spanY, 1) * 500000) \div max2(halfFovTan, 1)
      distanceForWidth ==
        (max2(spanX, 1) * 500000) \div max2((halfFovTan * aspect) \div 10000, 1)
  IN  max2(max2(distanceForHeight, distanceForWidth), 100)

\* mutant: the pull-back has no lower clamp
settleDistanceNoFloor(baseDistance) == min2((baseDistance * 166) \div 100, 255000)

\* line 767: Math.min(Math.max(baseDistance * 1.66, 1200), 2550)
settleDistanceOf(baseDistance) ==
  min2(max2((baseDistance * 166) \div 100, 120000), 255000)

\* lines 766-767 and 785-786: the distance of the pose and the zoom bounds
cameraOrbit(view) ==
  LET baseDistance == getCameraFitDistance(view, view.rawSpanX, view.rawSpanY)
      settleDistance == settleDistanceOf(baseDistance)
  IN  [baseDistance |-> baseDistance,
       settleDistance |-> settleDistance,
       minDistance |-> min2(max2((settleDistance * 36) \div 100, 15000), 42000),
       maxDistance |-> max2((settleDistance * 68) \div 10, 360000)]

-----------------------------------------------------------------------------
(* The trimmed extent, lines 56-67 *)

\* the place of v in an ascending list: after the elements not greater
RECURSIVE insertAscending(_, _)
insertAscending(sorted, v) ==
  IF sorted = <<>> THEN <<v>>
  ELSE IF sorted[Len(sorted)] <= v THEN Append(sorted, v)
  ELSE Append(insertAscending(SubSeq(sorted, 1, Len(sorted) - 1), v), sorted[Len(sorted)])

\* [...values].sort((a, b) => a - b)
RECURSIVE sortAscending(_)
sortAscending(vals) ==
  IF vals = <<>> THEN <<>>
  ELSE insertAscending(sortAscending(SubSeq(vals, 1, Len(vals) - 1)), vals[Len(vals)])

\* mutant: the extent is never trimmed
getTrimmedExtentUntrimmed(vals) ==
  IF Len(vals) = 0 THEN <<0, 0>>
  ELSE LET sorted == sortAscending(vals) IN <<sorted[1], sorted[Len(sorted)]>>

\* indices are 0-based in the source; (n - 1) * 0.1 and (n - 1) * 0.9 are
\* tenths of an integer, so floor and ceil are integer divisions
getTrimmedExtent(vals) ==
  IF Len(vals) = 0 THEN <<0, 0>>
  ELSE LET sorted == sortAscending(vals) IN
       IF Len(sorted) < TrimFrom
       THEN <<sorted[1], sorted[Len(sorted)]>>
       ELSE LET lowerIndex == (Len(sorted) - 1) \div 10
                upperIndex == ((Len(sorted) - 1) * 9 + 9) \div 10
            IN  <<sorted[lowerIndex + 1], sorted[upperIndex + 1]>>

-----------------------------------------------------------------------------
(* The dominant component, lines 69-115 *)

\* Map.set of a key: a new key goes last, a known key keeps its place
addKey(keys, k) == IF includes(keys, k) THEN keys ELSE Append(keys, k)

\* lines 71-82: the keys of the neighbors map in insertion order, the nodes
\* first, then the link endpoints that are no nodes
RECURSIVE neighborKeys(_, _, _, _)
neighborKeys(d, i, j, keys) ==
  IF i <= Len(d.nodes)
  THEN neighborKeys(d, i + 1, j, addKey(keys, d.nodes[i].id))
  ELSE IF j <= Len(d.links)
       THEN neighborKeys(d, i, j + 1,
                         addKey(addKey(keys, getNodeId(d.links[j].source)),
                                getNodeId(d.links[j].target)))
       ELSE keys

\* lines 84-85: the neighbor set of a key, in insertion order
RECURSIVE neighborsOf(_, _, _, _)
neighborsOf(d, k, j, acc) ==
  IF j > Len(d.links) THEN acc
  ELSE LET sourceId == getNodeId(d.links[j].source)
           targetId == getNodeId(d.links[j].target)
           a1 == IF sourceId = k THEN addKey(acc, targetId) ELSE acc
           a2 == IF targetId = k THEN addKey(a1, sourceId) ELSE a1
       IN  neighborsOf(d, k, j + 1, a2)

\* lines 101-106: every neighbor not yet visited is marked and pushed
RECURSIVE pushUnvisited(_, _, _, _)
pushUnvisited(nexts, i, visited, queue) ==
  IF i > Len(nexts) THEN [visited |-> visited, queue |-> queue]
  ELSE IF nexts[i] \in visited
       THEN pushUnvisited(nexts, i + 1, visited, queue)
       ELSE pushUnvisited(nexts, i + 1, visited \cup {nexts[i]}, Append(queue, nexts[i]))

\* lines 98-107: the while loop, popping from the end of the queue
RECURSIVE drainQueue(_, _, _, _)
drainQueue(d, queue, visited, current) ==
  IF queue = <<>> THEN [visited |-> visited, current |-> current]
  ELSE LET nodeId == queue[Len(queue)]
           r == pushUnvisited(neighborsOf(d, nodeId, 1, <<>>), 1, visited,
                              SubSeq(queue, 1, Len(queue) - 1))
       IN  drainQueue(d, r.queue, r.visited, current \cup {nodeId})

\* mutant: a component as large as the largest so far replaces it
RECURSIVE scanComponentsKeepLast(_, _, _, _, _)
scanComponentsKeepLast(d, keys, i, visited, best) ==
  IF i > Len(keys) THEN best
  ELSE IF keys[i] \in visited
       THEN scanComponentsKeepLast(d, keys, i + 1, visited, best)
       ELSE LET r == drainQueue(d, <<keys[i]>>, visited \cup {keys[i]}, {})
            IN  scanComponentsKeepLast(d, keys, i + 1, r.visited,
                                       IF Cardinality(r.current) >= Cardinality(best)
                                       THEN r.current ELSE best)

\* lines 91-112: neighbors.forEach over the keys, keeping a strictly larger component
RECURSIVE scanComponents(_, _, _, _, _)
scanComponents(d, keys, i, visited, best) ==
  IF i > Len(keys) THEN best
  ELSE IF keys[i] \in visited
       THEN scanComponents(d, keys, i + 1, visited, best)
       ELSE LET r == drainQueue(d, <<keys[i]>>, visited \cup {keys[i]}, {})
            IN  scanComponents(d, keys, i + 1, r.visited,
                               IF Cardinality(r.current) > Cardinality(best)
                               THEN r.current ELSE best)

getMainConnectedComponentIds(d) ==
  scanComponents(d, neighborKeys(d, 1, 1, <<>>), 1, {}, {})

-----------------------------------------------------------------------------
(* Alignment and camera frame, lines 117-229 and 754-793.  A position is    *)
(* "xyz" (three finite coordinates), "xy" (x and y finite, z not) or "none" *)
(* (no finite coordinate); moved records that alignment wrote x and y.      *)

\* lines 120-121 and 177
validPos(node) == node.pos = "xyz"

\* the test of lines 204 and 224
finiteXY(node) == node.pos \in {"xy", "xyz"}

\* lines 173-229: no write when fewer than 3 nodes of the dominant component
\* are positioned; otherwise every node with finite x and y is rewritten
alignGraphForFinalPose(d) ==
  LET primaryIds == getMainConnectedComponentIds(d)
      positionedPrimaryNodes ==
        SelectSeq(d.nodes, LAMBDA node : node.id \in primaryIds /\ validPos(node))
  IN  IF Len(positionedPrimaryNodes) < 3
      THEN d
      ELSE [d EXCEPT !.nodes =
              [i \in 1..Len(d.nodes) |->
                 IF finiteXY(d.nodes[i]) THEN [d.nodes[i] EXCEPT !.moved = TRUE]
                 ELSE d.nodes[i]]]

\* mutant: the dominant component frames from 3 positioned nodes on
getStableCameraFrameFrom3(d) ==
  LET primaryIds == getMainConnectedComponentIds(d)
      positionedMainNodes ==
        SelectSeq(d.nodes, LAMBDA node : node.id \in primaryIds /\ validPos(node))
      positionedAllNodes == SelectSeq(d.nodes, validPos)
      frameNodes == IF Len(positionedMainNodes) >= 3
                    THEN positionedMainNodes ELSE positionedAllNodes
  IN  IF Len(frameNodes) = 0 THEN <<>>
      ELSE <<[frameNodes |-> {frameNodes[i].id : i \in 1..Len(frameNodes)}]>>

\* lines 117-129: the nodes the frame is computed from; none is null
getStableCameraFrame(d) ==
  LET primaryIds == getMainConnectedComponentIds(d)
      positionedMainNodes ==
        SelectSeq(d.nodes, LAMBDA node : node.id \in primaryIds /\ validPos(node))
      positionedAllNodes == SelectSeq(d.nodes, validPos)
      frameNodes == IF Len(positionedMainNodes) >= 8
                    THEN positionedMainNodes ELSE positionedAllNodes
  IN  IF Len(frameNodes) = 0 THEN <<>>
      ELSE <<[frameNodes |-> {frameNodes[i].id : i \in 1..Len(frameNodes)}]>>

\* lines 756-791: alignment, then the camera command
finalPose(d) ==
  LET aligned == alignGraphForFinalPose(d)
      stableFrame == getStableCameraFrame(aligned)
  IN  [data |-> aligned,
       camera |-> IF stableFrame # <<>>
                  THEN [request |-> "cameraPosition", frameNodes |-> stableFrame[1].frameNodes]
                  ELSE [request |-> "zoomToFit", frameNodes |-> {}]]

\* the payload when the simulation settles: the engine has positioned every node
settled(graph) ==
  [nodes |-> [i \in 1..Len(graph[1].nodes) |->
                [id |-> graph[1].nodes[i].id, pos |-> "xyz", moved |-> FALSE]],
   links |-> graph[1].links]

-----------------------------------------------------------------------------
(* The settle callback, lines 754-793 *)

bump(n) == IF n < MaxCount THEN n + 1 ELSE n

\* mutant: the guard is never set
onEngineStopNoGuard ==
  /\ mounted /\ fgMounted /\ engineRunning
  /\ engineRunning' = FALSE
  /\ settles' = bump(settles)
  /\ IF didFinalCenterRef \/ ~fgMounted
     THEN UNCHANGED <<frames, camera>>
     ELSE /\ frames' = bump(frames)
          /\ camera' = finalPose(settled(graphData)).camera
  /\ UNCHANGED <<inputVars, paramVars, graphData, maxNodeSize, creOptions, combinedOptions,
                 buildError, mounted, fgMounted, focusVars, hoverDelayTimerRef, timers,
                 stagedTimers, chargeStrength, lastEntered, sinceEnter, preempted,
                 stagedCancelled, didFinalCenterRef, 
                 sideVars, lastHoverEvent>>

onEngineStop ==
  /\ mounted /\ fgMounted /\ engineRunning
  /\ engineRunning' = FALSE
  /\ settles' = bump(settles)
  /\ IF didFinalCenterRef \/ ~fgMounted
     THEN UNCHANGED <<didFinalCenterRef, frames, camera>>
     ELSE /\ frames' = bump(frames)
          /\ camera' = finalPose(settled(graphData)).camera
          /\ didFinalCenterRef' = TRUE
  /\ UNCHANGED <<inputVars, paramVars, graphData, maxNodeSize, creOptions, combinedOptions,
                 buildError, mounted, fgMounted, focusVars, hoverDelayTimerRef, timers,
                 stagedTimers, chargeStrength, lastEntered, sinceEnter, preempted,
                 stagedCancelled, sideVars,
                 lastHoverEvent>>

-----------------------------------------------------------------------------
(* Time and teardown *)

minRemaining == CHOOSE r \in {t.remaining : t \in timers} : \A t \in timers : r <= t.remaining

\* d ms pass: no timer is due earlier
Advance(d) ==
  /\ timers # {}
  /\ d > 0 /\ d <= minRemaining
  /\ timers' = {[t EXCEPT !.remaining = @ - d] : t \in timers}
  /\ sinceEnter' = IF sinceEnter + d < HoverDelayMs THEN sinceEnter + d ELSE HoverDelayMs
  /\ UNCHANGED <<inputVars, paramVars, graphData, maxNodeSize, creOptions, combinedOptions,
                 buildError, mounted, fgMounted, focusVars, hoverDelayTimerRef,
                 didFinalCenterRef, stagedTimers, chargeStrength, engineRunning,
                 lastEntered, settles, frames, preempted, stagedCancelled, sideVars,
                 camera, lastHoverEvent>>

\* mutant: the unmount effect has no cleanup of the hover timer
UnmountKeepHover ==
  /\ mounted
  /\ mounted' = FALSE
  /\ fgMounted' = FALSE
  /\ timers' = stagedCleanup(timers, stagedTimers)
  /\ stagedTimers' = <<>>
  /\ engineRunning' = FALSE
  /\ UNCHANGED <<inputVars, paramVars, graphData, maxNodeSize, creOptions, combinedOptions,
                 buildError, focusVars, hoverDelayTimerRef, didFinalCenterRef,
                 chargeStrength, lastEntered, sinceEnter, settles, frames, preempted,
                 stagedCancelled, sideVars, camera, lastHoverEvent>>

\* the component unmounts: the cleanups of lines 648-651 and 655-659
Unmount ==
  /\ mounted
  /\ mounted' = FALSE
  /\ fgMounted' = FALSE
  /\ timers' = IF hoverDelayTimerRef # 0
               THEN clearTimeout(stagedCleanup(timers, stagedTimers), hoverDelayTimerRef)
               ELSE stagedCleanup(timers, stagedTimers)
  /\ stagedTimers' = <<>>
  /\ engineRunning' = FALSE
  /\ UNCHANGED <<inputVars, paramVars, graphData, maxNodeSize, creOptions, combinedOptions,
                 buildError, focusVars, hoverDelayTimerRef, didFinalCenterRef,
                 chargeStrength, lastEntered, sinceEnter, settles, frames, preempted,
                 stagedCancelled, sideVars, camera,
                 lastHoverEvent>>

-----------------------------------------------------------------------------
(* The interaction over a delivered tree *)

\* the nodes the pointer visits
NodeIds == {<<"c1">>, <<"c2">>}

Next ==
  \/ dataStore = {} /\ LoadData(<<1>>, SampleLinks)
  \/ toggleLinks(<<"related">>)
  \/ setShowAll
  \/ \E nodeId \in NodeIds : handleNodeHover(nodeId)
  \/ hoverExit
  \/ onBackgroundClick
  \/ \E t \in timers : hoverFire(t)
  \/ \E t \in timers : expandFire(t)
  \/ \E t \in timers : settleFire(t)
  \/ onEngineStop
  \/ timers # {} /\ \E d \in {TimeStep, minRemaining} : Advance(d)
  \/ Unmount

Spec == Init /\ [][Next]_vars

-----------------------------------------------------------------------------
(* The pose functions on their own, lines 69-229 and 754-793 *)

poseNode(i, pos) == [id |-> i, pos |-> pos, moved |-> FALSE]

\* the links of a path over the nodes 1..k
pathLinks(k) ==
  [i \in 1..(IF k > 1 THEN k - 1 ELSE 0) |-> [source |-> i, target |-> i + 1]]

\* the nodes without a position: at most two of them, or all of them
unpositioned(n) ==
  {U \in SUBSET (1..n) : Cardinality(U) <= 2} \cup {1..n}

\* n nodes, a path over the first k, the others alone; the nodes of U have no
\* position and node x has x and y only
PoseGraphs ==
  UNION {UNION {{[nodes |-> [i \in 1..n |->
                              poseNode(i, IF i \in U THEN "none"
                                          ELSE IF i = x THEN "xy" ELSE "xyz")],
                  links |-> pathLinks(k)] : U \in unpositioned(n), x \in {0, n}}
                : k \in 0..n}
         : n \in 0..MaxNodes}

NodeLists == {<<>>, <<1>>, <<1, 2>>, <<2, 1>>, <<1, 2, 3>>, <<3, 1, 2>>,
              <<1, 2, 3, 4>>, <<4, 3, 2, 1>>, <<2, 4, 1, 3>>}

LinkPairs == {<<a, b>> \in (1..4) \X (1..4) : a <= b \/ <<a, b>> = <<4, 1>>}

linkCode(p) == p[1] * 10 + p[2]

\* the lists of at most n distinct links
RECURSIVE LinkLists(_)
LinkLists(n) ==
  IF n = 0 THEN {<<>>}
  ELSE LinkLists(n - 1) \cup
       {<<[source |-> p[1], target |-> p[2]]>> \o q :
          <<p, q>> \in {pq \in LinkPairs \X LinkLists(n - 1) :
                         /\ Len(pq[2]) = n - 1
                         /\ pq[2] # <<>> =>
                              linkCode(pq[1]) <
                                linkCode(<<pq[2][1].source, pq[2][1].target>>)}}

\* two triangles and a node alone
TwoTriangles ==
  [nodes |-> [i \in 1..7 |-> poseNode(<<7, 1, 2, 3, 4, 5, 6>>[i], "xyz")],
   links |-> <<[source |-> 4, target |-> 5], [source |-> 5, target |-> 6],
               [source |-> 6, target |-> 4], [source |-> 1, target |-> 2],
               [source |-> 2, target |-> 3], [source |-> 3, target |-> 1]>>]

ComponentGraphs ==
  {[nodes |-> [i \in 1..Len(ids) |-> poseNode(ids[i], "xyz")], links |-> links] :
     ids \in NodeLists, links \in LinkLists(MaxEdges)} \cup {TwoTriangles}

InitPose ==
  /\ componentInit
  /\ data \in PoseGraphs \cup ComponentGraphs
  /\ largest = <<>>
  /\ values = <<>>
  /\ extent = <<>>
  /\ viewport = NoViewport
  /\ orbit = <<>>

\* a call of getMainConnectedComponentIds
callMainComponent ==
  /\ largest = <<>>
  /\ largest' = <<getMainConnectedComponentIds(data)>>
  /\ UNCHANGED <<componentVars, camera, data, values, extent, viewport, orbit>>

\* lines 756-790 on the graph: the alignment, then the camera
framePose ==
  /\ camera = NoCamera
  /\ \E r \in {finalPose(data)} :
       /\ data' = r.data
       /\ camera' = r.camera
  /\ UNCHANGED <<componentVars, largest, values, extent, viewport, orbit>>

NextPose ==
  \/ callMainComponent
  \/ framePose

SpecPose == InitPose /\ [][NextPose]_vars

-----------------------------------------------------------------------------
(* The trimmed extent on its own, lines 56-67 *)

ExtentSeeds ==
  {<<>>, <<5, 1, 9, 3, 7, 2, 8, 4, 6, 10, 0, 11>>,
   <<11, 10, 9, 8, 7, 6, 5, 4, 3, 2, 1, 0>>, <<7>>}

ExtentValues == {-3, 20}

InitExtent ==
  /\ componentInit
  /\ data = [nodes |-> <<>>, links |-> <<>>]
  /\ largest = <<>>
  /\ values \in ExtentSeeds
  /\ extent = <<>>
  /\ viewport = NoViewport
  /\ orbit = <<>>

pushValue(v) ==
  /\ Len(values) < MaxValues
  /\ values' = Append(values, v)
  /\ extent' = <<>>
  /\ UNCHANGED <<componentVars, camera, data, largest, viewport, orbit>>

\* the same values in another order
rotateValues ==
  /\ Len(values) > 1
  /\ values' = Append(Tail(values), Head(values))
  /\ extent' = <<>>
  /\ UNCHANGED <<componentVars, camera, data, largest, viewport, orbit>>

\* a call of getTrimmedExtent
callTrimmedExtent ==
  /\ extent = <<>>
  /\ extent' = <<getTrimmedExtent(values)>>
  /\ UNCHANGED <<componentVars, camera, data, largest, values, viewport, orbit>>

NextExtent ==
  \/ \E v \in ExtentValues : pushValue(v)
  \/ rotateValues
  \/ callTrimmedExtent

SpecExtent == InitExtent /\ [][NextExtent]_vars

-----------------------------------------------------------------------------
(* The camera distance on its own, lines 158-171 and 763-786 *)

\* clientWidth and clientHeight of the canvas; 0 when there is none
Screens == {<<0, 0>>, <<1920, 1080>>, <<1080, 1920>>, <<800, 600>>}

\* camera.fov in degrees; 0 when there is none
Fovs == {0, 10, 40, 90, 120}

\* rawSpanX and rawSpanY of a frame, in units: never below 1 (lines 142-143)
Spans == {1, 40, 700, 4000}

InitCamera ==
  /\ componentInit
  /\ data = [nodes |-> <<>>, links |-> <<>>]
  /\ largest = <<>>
  /\ values = <<>>
  /\ extent = <<>>
  /\ viewport \in {[width |-> s[1], height |-> s[2], fov |-> f, rawSpanX |-> x, rawSpanY |-> y] :
                     s \in Screens, f \in Fovs, x \in Spans, y \in Spans}
  /\ orbit = <<>>

\* lines 763-786 for a frame of the spans of viewport
poseCamera ==
  /\ orbit = <<>>
  /\ orbit' = <<cameraOrbit(viewport)>>
  /\ UNCHANGED <<componentVars, camera, data, largest, values, extent, viewport>>

NextCamera == poseCamera

SpecCamera == InitCamera /\ [][NextCamera]_vars

-----------------------------------------------------------------------------
(* Properties of the built graph *)

graphLinks == IF graphData = <<>> THEN <<>> ELSE graphData[1].links
graphNodes == IF graphData = <<>> THEN <<>> ELSE graphData[1].nodes
nodeIds == {graphNodes[i].id : i \in 1..Len(graphNodes)}
filtering == ~showAll /\ (filterTypeA # <<>> \/ filterTypeB # <<>>)

\* the edge list before the endpoint filter: the build with show-all on
unfilteredLinks ==
  buildGraph(dataStore, dataTree, docLinks, ignoreTypes, <<>>, <<>>, TRUE).graph[1].links

\* C1: no two emitted edges have the same relation type, compared
\* case-insensitively, and the same unordered pair of endpoint identities.
C1_NoTwoEdgesOfOneTypeOnOnePair ==
  \A i, j \in 1..Len(graphLinks) :
    (i # j /\ toLowerCase(graphLinks[i].type) = toLowerCase(graphLinks[j].type))
      => {graphLinks[i].source, graphLinks[i].target}
           # {graphLinks[j].source, graphLinks[j].target}

\* C2: both endpoints of every emitted edge are identities of emitted nodes,
\* and no two emitted nodes share an identity.
C2_EndpointsAreNodesAndNodesDistinct ==
  /\ \A i \in 1..Len(graphLinks) :
       graphLinks[i].source \in nodeIds /\ graphLinks[i].target \in nodeIds
  /\ \A i, j \in 1..Len(graphNodes) : graphNodes[i].id = graphNodes[j].id => i = j

\* C2 witness: a filtered graph of two edges
C2_Witness ==
  /\ filtering /\ filterTypeA # <<>> /\ filterTypeB # <<>>
  /\ Len(graphLinks) >= 2 /\ Len(graphNodes) >= 2

\* C3: a build over a non-empty store terminates and produces a graph, also
\* when a document links back to itself.
C3_BuildProducesGraph == dataStore # {} => (~buildError /\ graphData # <<>>)

\* C4: with show-all off and a filter set, every edge has an endpoint that
\* matches the predicate of a filter that is set.
C4_EveryEdgeMatchesASetFilter ==
  filtering =>
    \A i \in 1..Len(graphLinks) :
      \E f \in {filterTypeA, filterTypeB} \ {<<>>} :
        \E e \in {graphLinks[i].source, graphLinks[i].target} :
          /\ filterNode(dataStore, e) # <<>>
          /\ matchesFilter(filterNode(dataStore, e)[1], f)

\* C9: the size of each group node is the number of distinct original
\* standard identities folded into the group.
C9_GroupSizeIsDistinctMemberCount ==
  \A i \in 1..Len(graphNodes) :
    startsWith(graphNodes[i].id, "grouped_") =>
      graphNodes[i].size = Cardinality({Doc(o).id : o \in Range(graphNodes[i].originalNodes)})

\* C10: with show-all off and an endpoint filter set to a group identity G,
\* every edge with the group node G as an endpoint is retained, whatever the
\* other filter.
C10_GroupFilterKeepsGroupEdges ==
  (graphData # <<>> /\ ~showAll /\ isGroupedStandard(filterTypeB)) =>
    \A i \in 1..Len(unfilteredLinks) :
      (unfilteredLinks[i].source = filterTypeB \/ unfilteredLinks[i].target = filterTypeB)
        => unfilteredLinks[i] \in Range(graphLinks)

-----------------------------------------------------------------------------
(* Properties of the timers *)

hoverTimers == {t \in timers : t.kind = "hover"}

\* the hover timers pending are one at most, armed by the last hover-enter
hoverTimerOfLastEnter ==
  /\ Cardinality(hoverTimers) <= 1
  /\ \A t \in hoverTimers :
       t.hoveredId = lastEntered /\ t.remaining = HoverDelayMs - sinceEnter

\* C5: a hover-enter cancels the timer of the node entered before it, and a
\* spotlight is committed only HoverDelayMs after the most recent hover-enter,
\* on the node of that hover-enter.
C5_SpotlightOnlyOfLastEnter ==
  [][/\ hoverTimerOfLastEnter'
     /\ (focusedNodeId' # <<>> /\ focusedNodeId' # focusedNodeId)
          => (focusedNodeId' = lastEntered /\ sinceEnter = HoverDelayMs)]_vars

\* C5 witness: B was entered while the timer of A was pending, and the
\* spotlight of B is committed
C5_Witness == preempted /\ focusedNodeId # <<>> /\ focusedNodeId = lastEntered

\* C6: a hover timer armed against a previous graph never fires and commits
\* a spotlight: the build cancels it.
C6_NoCommitByTimerOfPreviousGraph ==
  [][\A t \in hoverTimers :
       (t.stale /\ timers' = timers \ {t}) => focusedNodeId' = <<>>]_vars

expandPending ==
  stagedTimers # <<>> /\ \E t \in timers : t.id = stagedTimers[1] /\ t.kind = "expand"
settlePending ==
  stagedTimers # <<>> /\ \E t \in timers : t.id = stagedTimers[2] /\ t.kind = "settle"

\* C7: after a build the strength is StartCharge until the first staged timer
\* fires, ExpandCharge until the second fires, SettleCharge afterwards, the
\* first timer due SettleDelayMs - ExpandDelayMs before the second; and no
\* staged timer of a previous build is pending.
C7_StagedStrengthOfCurrentBuild ==
  /\ \A t \in timers \ hoverTimers : t.id \in Range(stagedTimers)
  /\ \A t, u \in timers : (t.kind = "expand" /\ u.kind = "settle")
        => u.remaining - t.remaining = SettleDelayMs - ExpandDelayMs
  /\ fgMounted =>
       chargeStrength = IF expandPending THEN StartCharge
                        ELSE IF settlePending THEN ExpandCharge
                        ELSE SettleCharge

\* C7 witness: a build cancelled a pending staged timer, and the timers of
\* the build after it have both fired
C7_Witness == stagedCancelled /\ fgMounted /\ chargeStrength = SettleCharge

\* C8: framing has run exactly once when a settle event has followed the last
\* build, and not yet when none has.
C8_FramedOncePerBuild ==
  fgMounted => /\ frames = (IF settles > 0 THEN 1 ELSE 0)
               /\ didFinalCenterRef = (settles > 0)

\* C8 witness: after a rebuild, a second settle event that did not frame
C8_Witness == stagedCancelled /\ fgMounted /\ settles >= 2 /\ frames = 1

-----------------------------------------------------------------------------
(* Properties of the built graph, continued *)

storeKeys == {getStoreKey(o) : o \in dataStore}
known(endpoint) == startsWith(endpoint, "grouped_") \/ endpoint \in storeKeys

\* C11: no emitted edge has an endpoint that is neither a group identity nor
\* a key of the store, and no node is created for such an endpoint.
C11_MissingEndpointDropped ==
  /\ \A i \in 1..Len(graphLinks) : known(graphLinks[i].source) /\ known(graphLinks[i].target)
  /\ \A i \in 1..Len(graphNodes) : known(graphNodes[i].id)

ToggleNames == {<<"contains">>, <<"related">>, <<"linked to">>, <<"same">>}

\* C14: toggling a relation type twice, nothing else changed, builds a graph
\* with the edge set and the node set of the graph before the two toggles.
C14_ToggleTwiceSameGraph ==
  graphData # <<>> =>
    \A name \in ToggleNames :
      \A b \in {buildGraph(dataStore, dataTree, docLinks,
                            ignoreTypesClone(ignoreTypesClone(ignoreTypes, name), name),
                            filterTypeA, filterTypeB, showAll)} :
        /\ ~b.threw
        /\ Range(b.graph[1].links) = Range(graphLinks)
        /\ Range(b.graph[1].nodes) = Range(graphNodes)

\* C14 witness: 'related' is toggled off in a tree with related links
C14_Witness ==
  /\ includes(ignoreTypes, <<"related">>) /\ stagedCancelled
  /\ graphLinks # <<>>
  /\ \E o \in Objs : \E i \in 1..Len(docLinks[o]) : docLinks[o][i].ltype = <<"Related">>

notIgnored(l) == ~includes(ignoreTypes, toLowerCase(l.ltype))

\* the documents the roots reach along links of types not ignored
RECURSIVE reachNotIgnored(_)
reachNotIgnored(seen) ==
  LET more == seen \cup UNION {{docLinks[o][i].document :
                                  i \in {j \in 1..Len(docLinks[o]) : notIgnored(docLinks[o][j])}} :
                               o \in seen}
  IN  IF more = seen THEN seen ELSE reachNotIgnored(more)

\* the endpoint that stands for a document: the group of a standard of the tree
endpointOf(o) ==
  IF isStandard(Doc(o).doctype) /\ o \in reach(docLinks, Range(dataTree))
  THEN <<"grouped_">> \o getBaseName(Doc(o).id)
  ELSE Doc(o).id

\* C18: before endpoint filtering the emitted edges are exactly the resolved
\* keys of the links of non-ignored type whose source document the roots reach
\* along links of non-ignored types, each edge stored reversed.
C18_EdgesAreReachableLinksReversed ==
  graphData # <<>> =>
    {<<unfilteredLinks[i].source, unfilteredLinks[i].target,
       toLowerCase(unfilteredLinks[i].type)>> : i \in 1..Len(unfilteredLinks)}
      = UNION {{<<endpointOf(docLinks[d][j].document), endpointOf(d),
                  toLowerCase(docLinks[d][j].ltype)>> :
                  j \in {k \in 1..Len(docLinks[d]) : notIgnored(docLinks[d][k])}} :
               d \in reachNotIgnored(Range(dataTree))}

\* C18 witness: the link below the second member of a group is emitted
C18_Witness ==
  /\ docLinks = DeepLinks /\ graphData # <<>>
  /\ \E i \in 1..Len(graphLinks) :
       /\ graphLinks[i].source = <<"c2">>
       /\ graphLinks[i].target = <<"grouped_", "S">>

\* the sum of f over the finite set S
RECURSIVE sumOver(_, _)
sumOver(S, f) ==
  IF S = {} THEN 0 ELSE LET x == CHOOSE y \in S : TRUE IN f[x] + sumOver(S \ {x}, f)

\* the number of paths from the roots to a document, in a tree without cycles
RECURSIVE pathCount(_)
pathCount(o) ==
  LET into == {p \in Objs \X (1..(MaxLinks + 2)) :
                 p[2] <= Len(docLinks[p[1]]) /\ docLinks[p[1]][p[2]].document = o}
  IN  Cardinality({i \in 1..Len(dataTree) : dataTree[i] = o})
        + sumOver(into, [p \in into |-> pathCount(p[1])])

\* the entries of the member list of a group
memberCount(baseName) ==
  LET members == {o \in Objs : isStandard(Doc(o).doctype) /\ getBaseName(Doc(o).id) = baseName}
  IN  sumOver(members, [o \in members |-> pathCount(o)])

\* the times an identity is an endpoint of a surviving edge
occurrences(id) ==
  Cardinality({i \in 1..Len(graphLinks) : graphLinks[i].source = id})
    + Cardinality({i \in 1..Len(graphLinks) : graphLinks[i].target = id})

initialSize(id) ==
  IF startsWith(id, "grouped_")
  THEN LET n == memberCount(getBaseNameFromGrouped(id)) IN IF n = 0 THEN 1 ELSE n
  ELSE 1

\* C19: the nodes are the endpoints of the surviving edges, and the size of a
\* node is its initial size plus its occurrences as an endpoint minus one.
C19_NodesAreEndpointsSizedByOccurrence ==
  graphData # <<>> =>
    /\ nodeIds = {graphLinks[i].source : i \in 1..Len(graphLinks)}
                   \cup {graphLinks[i].target : i \in 1..Len(graphLinks)}
    /\ \A i \in 1..Len(graphNodes) :
         graphNodes[i].size
           = initialSize(graphNodes[i].id) + occurrences(graphNodes[i].id) - 1

\* C19 witness: a group node whose member list holds a standard twice
C19_Witness ==
  \E i \in 1..Len(graphNodes) :
    /\ startsWith(graphNodes[i].id, "grouped_")
    /\ Len(graphNodes[i].originalNodes) > Cardinality(Range(graphNodes[i].originalNodes))
    /\ occurrences(graphNodes[i].id) >= 2

-----------------------------------------------------------------------------
(* Properties of the spotlight, continued *)

idle ==
  /\ hoverTimers = {} /\ hoverDelayTimerRef = 0
  /\ focusedNodeId = <<>> /\ focusedNodeIds = {} /\ focusedLinkIds = {}

\* C13: after a hover-exit or a background click, and until the next
\* hover-enter, no hover timer is outstanding, the focused node is null and
\* the focused node and edge sets are empty.
C13_IdleAfterExitOrClick == lastHoverEvent = "leave" => idle

\* C13 witness: the pointer left within HoverDelayMs of a hover-enter
C13_Witness ==
  lastHoverEvent = "leave" /\ lastEntered # <<>> /\ sinceEnter < HoverDelayMs /\ mounted

\* C16: after teardown no hover timer is pending, so none fires and no
\* spotlight is committed.
C16_NoHoverTimerAfterTeardown ==
  /\ [](~mounted => hoverTimers = {})
  /\ [][~mounted => focusedNodeId' = focusedNodeId]_vars

\* C16 witness: torn down within HoverDelayMs of a hover-enter, its timer pending
C16_Witness ==
  ~mounted /\ ~buildError /\ lastHoverEvent = "enter" /\ sinceEnter < HoverDelayMs

incident(n) ==
  {i \in 1..Len(graphLinks) : graphLinks[i].source = n \/ graphLinks[i].target = n}
sharing(n) ==
  {m \in nodeIds : \E i \in incident(n) :
     {graphLinks[i].source, graphLinks[i].target} = {n, m}}

\* the adjacency index of the current graph is exact and symmetric
adjacencyExact ==
  LET adj == adjacency(graphData) IN
  \A n \in nodeIds :
    /\ n \in DOMAIN adj.neighborNodes /\ n \in DOMAIN adj.incidentLinks
    /\ adj.neighborNodes[n] = sharing(n)
    /\ \A m \in adj.neighborNodes[n] : n \in adj.neighborNodes[m]
    /\ adj.incidentLinks[n] =
         {createLinkId(graphLinks[i].source, graphLinks[i].target, graphLinks[i].type) :
            i \in incident(n)}

\* C20: the adjacency index gives each node the nodes sharing an edge with it
\* and the identities of its incident edges; a spotlight on N committed with
\* no build since the hover-enter focuses neighbors(N) and N, and a rendered
\* edge is focused if and only if it is incident to N.
C20_AdjacencyAndSpotlight ==
  /\ []adjacencyExact
  /\ [][\A t \in hoverTimers :
          (~t.stale /\ t.remaining = 0 /\ timers' = timers \ {t}
                    /\ focusedNodeId' = t.hoveredId)
            => /\ focusedNodeIds' = sharing(t.hoveredId) \cup {t.hoveredId}
               /\ \A i \in 1..Len(graphLinks) :
                    isFocusedLink(graphLinks[i], focusedLinkIds')
                      <=> i \in incident(t.hoveredId)]_vars

\* C20 witness: a committed spotlight with a neighbor, a focused edge and an
\* edge that is not focused
C20_Witness ==
  /\ focusedNodeId # <<>> /\ focusedNodeId \in nodeIds
  /\ focusedNodeIds = sharing(focusedNodeId) \cup {focusedNodeId}
  /\ Cardinality(focusedNodeIds) >= 2
  /\ \E i \in 1..Len(graphLinks) : isFocusedLink(graphLinks[i], focusedLinkIds)
  /\ \E i \in 1..Len(graphLinks) : ~isFocusedLink(graphLinks[i], focusedLinkIds)

-----------------------------------------------------------------------------
(* Properties of the pose functions *)

dataKeys ==
  {data.nodes[i].id : i \in 1..Len(data.nodes)} \cup
  {data.links[i].source : i \in 1..Len(data.links)} \cup
  {data.links[i].target : i \in 1..Len(data.links)}

\* the keys one undirected edge away from the keys of S
oneStep(S) ==
  S \cup {data.links[i].target : i \in {j \in 1..Len(data.links) : data.links[j].source \in S}}
    \cup {data.links[i].source : i \in {j \in 1..Len(data.links) : data.links[j].target \in S}}

RECURSIVE closure(_)
closure(S) == IF oneStep(S) = S THEN S ELSE closure(oneStep(S))

componentOf(k) == closure({k})

\* the place of a key in the order of discovery: the nodes in their order,
\* then the endpoints of the links in theirs
keyRank(k) ==
  IF \E i \in 1..Len(data.nodes) : data.nodes[i].id = k
  THEN CHOOSE i \in 1..Len(data.nodes) :
         /\ data.nodes[i].id = k
         /\ \A j \in 1..(i - 1) : data.nodes[j].id # k
  ELSE Len(data.nodes) +
       (CHOOSE c \in 2..(2 * Len(data.links) + 1) :
          /\ k = (IF c % 2 = 0 THEN data.links[c \div 2].source
                  ELSE data.links[c \div 2].target)
          /\ \A e \in 2..(c - 1) :
               k # (IF e % 2 = 0 THEN data.links[e \div 2].source
                    ELSE data.links[e \div 2].target))

\* the dominant component: of the largest components, the one whose first
\* key comes first
dominant ==
  IF dataKeys = {} THEN {}
  ELSE componentOf(CHOOSE k \in dataKeys :
         \A o \in dataKeys :
           \/ Cardinality(componentOf(o)) < Cardinality(componentOf(k))
           \/ /\ Cardinality(componentOf(o)) = Cardinality(componentOf(k))
              /\ keyRank(k) <= keyRank(o))

\* C12: getMainConnectedComponentIds returns a connected component that no
\* other component exceeds in size; of several largest ones it returns the
\* one discovered first in node order; the result is empty only for a graph
\* without nodes and without edges.
C12_LargestComponentFirstOnTie ==
  largest # <<>> =>
    /\ largest[1] = {} <=> (data.nodes = <<>> /\ data.links = <<>>)
    /\ largest[1] # {} => \E k \in dataKeys : largest[1] = componentOf(k)
    /\ \A k \in dataKeys : Cardinality(componentOf(k)) <= Cardinality(largest[1])
    /\ largest[1] = dominant

C12_Witness ==
  /\ largest # <<>>
  /\ \E k \in dataKeys :
       /\ componentOf(k) # largest[1]
       /\ Cardinality(componentOf(k)) = Cardinality(largest[1])
       /\ Cardinality(largest[1]) >= 2

positionedIds(ids) ==
  {data.nodes[i].id : i \in {j \in 1..Len(data.nodes) :
                              data.nodes[j].id \in ids /\ data.nodes[j].pos = "xyz"}}

\* C17: the framing step requests the fit-all command exactly when no node
\* has a finite 3D position and an explicit camera pose otherwise; with fewer
\* than 3 positioned nodes in the dominant component no node is moved by the
\* alignment; with fewer than 8 the frame is computed from all positioned
\* nodes; in each case a camera command is produced.
C17_FramingOfDegenerateGraphs ==
  camera.request # "none" =>
    /\ camera.request \in {"zoomToFit", "cameraPosition"}
    /\ camera.request = "zoomToFit" <=> positionedIds(dataKeys) = {}
    /\ Cardinality(positionedIds(dominant)) < 3 =>
         \A i \in 1..Len(data.nodes) : ~data.nodes[i].moved
    /\ (Cardinality(positionedIds(dominant)) < 8 /\ camera.request = "cameraPosition") =>
         camera.frameNodes = positionedIds(dataKeys)
    /\ Cardinality(positionedIds(dominant)) >= 8 =>
         camera.frameNodes = positionedIds(dominant)

C17_Witness ==
  /\ camera.request = "cameraPosition"
  /\ Cardinality(positionedIds(dominant)) < 3
  /\ Cardinality(dominant) >= 3
  /\ positionedIds(dataKeys) \ positionedIds(dominant) # {}
  /\ camera.frameNodes = positionedIds(dataKeys)

-----------------------------------------------------------------------------
(* Properties of the trimmed extent *)

valueSet == {values[i] : i \in 1..Len(values)}

\* the value at the 0-based index k of the ascending order of the values
atRank(k) ==
  CHOOSE v \in valueSet :
    /\ Cardinality({i \in 1..Len(values) : values[i] < v}) <= k
    /\ k < Cardinality({i \in 1..Len(values) : values[i] <= v})

\* C15: getTrimmedExtent returns [0, 0] for an empty list, the exact minimum
\* and maximum for 1 to 11 values, and for n >= 12 values the elements of the
\* ascending order at the 0-based indices floor(0.1 (n - 1)) and
\* ceil(0.9 (n - 1)); the values 0..11 in any order give [1, 10]; the lower
\* bound never exceeds the upper and both are elements of a non-empty input.
C15_TrimmedExtent ==
  extent # <<>> =>
    LET n == Len(values)
        lo == extent[1][1]
        hi == extent[1][2]
    IN  /\ n = 0 => extent[1] = <<0, 0>>
        /\ n \in 1..11 =>
             /\ lo \in valueSet /\ \A v \in valueSet : lo <= v
             /\ hi \in valueSet /\ \A v \in valueSet : v <= hi
        /\ n >= 12 =>
             /\ \E k \in 0..(n - 1) : 10 * k <= n - 1 /\ n - 1 < 10 * (k + 1) /\ lo = atRank(k)
             /\ \E k \in 0..(n - 1) :
                  10 * (k - 1) < 9 * (n - 1) /\ 9 * (n - 1) <= 10 * k /\ hi = atRank(k)
        /\ (n = 12 /\ valueSet = 0..11) => extent[1] = <<1, 10>>
        /\ lo <= hi
        /\ n > 0 => (lo \in valueSet /\ hi \in valueSet)

C15_Witness ==
  /\ extent # <<>>
  /\ Len(values) >= 12
  /\ \E v \in valueSet : v < extent[1][1]
  /\ \E v \in valueSet : v > extent[1][2]
  /\ extent[1][1] < extent[1][2]

-----------------------------------------------------------------------------
(* Properties of the standard groups *)

\* groupedStandards of the build of the current inputs
groupsNow ==
  buildGraph(dataStore, dataTree, docLinks, ignoreTypes,
             filterTypeA, filterTypeB, showAll).grouped

\* the standards in the tree below the roots
standardsInTree ==
  {o \in reach(docLinks, Range(dataTree)) : isStandard(Doc(o).doctype)}

\* C21: a standard-typed document without outgoing links is in no group's
\* member list and has no group-identity mapping.
C21_LinklessStandardNotCollected ==
  graphData # <<>> =>
    \A g \in {groupsNow} :
      \A o \in Objs :
        (isStandard(Doc(o).doctype) /\ docLinks[o] = <<>>) =>
          /\ \A b \in DOMAIN g : o \notin Range(g[b])
          /\ Doc(o).id \notin DOMAIN originalToGroupedMap(g)

\* C23: in every built graph no node and no edge endpoint carries the key of
\* a standard-typed document of the tree; each is named by its group.
C23_NoIndividualStandardInGraph ==
  graphData # <<>> =>
    \A o \in standardsInTree :
      /\ getStoreKey(o) \notin nodeIds
      /\ \A i \in 1..Len(graphLinks) :
           graphLinks[i].source # getStoreKey(o) /\ graphLinks[i].target # getStoreKey(o)

\* C23 witness: a graph with a group node, built with the related links
\* ignored in a tree that reaches a standard over one
C23_Witness ==
  /\ graphData # <<>>
  /\ includes(ignoreTypes, <<"related">>)
  /\ \E i \in 1..Len(graphNodes) : startsWith(graphNodes[i].id, "grouped_")
  /\ \E d \in Objs : \E j \in 1..Len(docLinks[d]) :
       /\ docLinks[d][j].ltype = <<"Related">>
       /\ docLinks[d][j].document \in standardsInTree

-----------------------------------------------------------------------------
(* The states of the spotlight *)

\* C24: at most one hover timer is outstanding; a pending hover timer and an
\* active spotlight never coexist; an active spotlight holds its focused
\* node in the focused node set; without a focused node both focus sets are
\* empty.
C24_OneTimerOrOneSpotlight ==
  /\ Cardinality(hoverTimers) <= 1
  /\ ~(hoverTimers # {} /\ focusedNodeId # <<>>)
  /\ focusedNodeId # <<>> => focusedNodeId \in focusedNodeIds
  /\ focusedNodeId = <<>> => (focusedNodeIds = {} /\ focusedLinkIds = {})

\* C24 witness: a spotlight with neighbors, committed by the timer of a
\* hover-enter that followed a hover-exit or a background click
C24_Witness ==
  /\ focusedNodeId # <<>>
  /\ hoverTimers = {}
  /\ ~preempted
  /\ lastHoverEvent = "enter"
  /\ focusedNodeId \in focusedNodeIds
  /\ focusedNodeIds # {focusedNodeId}

-----------------------------------------------------------------------------
(* The framing and the staged timers *)

\* C25: once the framing of a build has run, no staged strength timer of
\* that build is still to fire: the settle event that frames comes after the
\* expand and the settle timers.
C25_FramedAfterStagedTimers ==
  (fgMounted /\ didFinalCenterRef) => (~expandPending /\ ~settlePending)

-----------------------------------------------------------------------------
(* Properties of the camera distance *)

\* C22: the camera distance of an explicit pose is the fit distance times
\* 1.66 clamped to [1200, 2550]; minDistance is 0.36 times the distance
\* clamped to [150, 420]; maxDistance is 6.8 times the distance and at least
\* 3600; minDistance < distance < maxDistance. (Lengths in hundredths.)
C22_CameraDistanceClamped ==
  orbit # <<>> =>
    LET fit == orbit[1].baseDistance
        distance == orbit[1].settleDistance
        minDistance == orbit[1].minDistance
        maxDistance == orbit[1].maxDistance
    IN  /\ fit >= 100
        /\ distance >= 120000 /\ distance <= 255000
        /\ 166 * fit <= 12000000 => distance = 120000
        /\ 166 * fit >= 25500000 => distance = 255000
        /\ (12000000 < 166 * fit /\ 166 * fit < 25500000) =>
             (100 * distance <= 166 * fit /\ 166 * fit < 100 * (distance + 1))
        /\ minDistance >= 15000 /\ minDistance <= 42000
        /\ 36 * distance >= 4200000 => minDistance = 42000
        /\ maxDistance >= 360000
        /\ 10 * maxDistance >= 68 * distance - 9
        /\ minDistance < distance /\ distance < maxDistance

\* C22 witness: a pose whose distance is strictly between the clamps
C22_Witness ==
  /\ orbit # <<>>
  /\ orbit[1].settleDistance > 120000
  /\ orbit[1].settleDistance < 255000
====
